---- MODULE Spec2Model ----
(***************************************************************************)
(* Model of pkg/policycache/cache.go: the policy cache of the admission    *)
(* controller.  kindDataMap indexes policy identifiers by resource kind    *)
(* and PolicyType, nameCacheMap is the deduplication side index.           *)
(*                                                                         *)
(* Strings are sequences of one-character strings, so that the composite   *)
(* key kind + "/" + pName and the split done by ParseNamespacedPolicy are  *)
(* computed character by character.                                        *)
(***************************************************************************)
EXTENDS Integers, Sequences, FiniteSets, TLC

VARIABLES kindDataMap, nameCacheMap, last, added, rw, proc

vars == <<kindDataMap, nameCacheMap, last, added, rw, proc>>

(* ---------------------------------------------------------------- bounds *)
\* Largest total number of identifiers stored in kindDataMap.
MaxEntries == 3

\* Number of goroutines that call into the cache concurrently, one call each.
NumThreads == 2

(* ------------------------------------------------------------- constants *)
Mutate == "Mutate"
ValidateEnforce == "ValidateEnforce"
ValidateAudit == "ValidateAudit"
Generate == "Generate"

PolicyType == {Mutate, ValidateEnforce, ValidateAudit, Generate}

Slash == <<"/">>
NoNamespace == <<>>

\* Resource kinds used by the policies below; KindSub contains the separator.
KindPod == <<"P">>
KindSub == <<"P", "/", "q">>
Kinds == {KindPod, KindSub}

NameR == <<"r">>
NsQ == <<"q">>
NsN == <<"n">>
Namespaces == {NoNamespace, NsQ, NsN}

(* --------------------------------------------------------------- policies *)
Rule(kinds, m, v, g) == [kinds |-> kinds, mutate |-> m, validate |-> v, generate |-> g]

ClusterPolicy(ns, action, rules) ==
    [name |-> NameR, namespace |-> ns, validationFailureAction |-> action, rules |-> rules]

\* The policy objects handed to Add and Remove.  Several of them share an
\* identifier: they are versions of the same policy.
Policies ==
    { \* cluster-scoped r
      ClusterPolicy(NoNamespace, "audit", << Rule(<<KindPod>>, TRUE, TRUE, FALSE) >>),
      ClusterPolicy(NoNamespace, "enforce", << Rule(<<KindSub>>, FALSE, TRUE, TRUE) >>),
      ClusterPolicy(NoNamespace, "", << Rule(<<KindPod>>, FALSE, TRUE, FALSE),
                                       Rule(<<KindPod>>, FALSE, FALSE, TRUE) >>),
      ClusterPolicy(NoNamespace, "enforce", << Rule(<<KindSub>>, TRUE, FALSE, FALSE) >>),
      ClusterPolicy(NoNamespace, "audit", << Rule(<<KindPod>>, FALSE, FALSE, FALSE),
                                            Rule(<<>>, TRUE, FALSE, FALSE) >>),
      \* namespaced q/r
      ClusterPolicy(NsQ, "enforce", << Rule(<<KindPod>>, TRUE, FALSE, TRUE) >>),
      ClusterPolicy(NsQ, "enforce", << Rule(<<KindPod, KindSub>>, FALSE, TRUE, FALSE) >>),
      \* namespaced n/r
      ClusterPolicy(NsN, "audit", << Rule(<<KindPod>>, TRUE, FALSE, FALSE) >>)
    }

GetName(policy) == policy.name
GetNamespace(policy) == policy.namespace

HasMutate(rule) == rule.mutate
HasValidate(rule) == rule.validate
HasGenerate(rule) == rule.generate

(* ------------------------------------------------------------ map access *)
\* make(map[...]): a map without keys.
EmptyMap == [t \in {} |-> <<>>]

\* m.kindDataMap[kind][key] of Go: a missing kind or key reads as the nil slice.
kindData(kdm, kind, key) ==
    IF kind \in DOMAIN kdm /\ key \in DOMAIN kdm[kind] THEN kdm[kind][key] ELSE <<>>

\* m.kindDataMap[kind][key] = value, the outer entry being present.
kindDataSet(kdm, kind, key, value) ==
    [k \in DOMAIN kdm |->
        IF k = kind
        THEN [t \in DOMAIN kdm[k] \cup {key} |-> IF t = key THEN value ELSE kdm[k][t]]
        ELSE kdm[k]]

\* m.kindDataMap[kind] = make(map[PolicyType][]string) when the kind is missing.
kindDataMake(kdm, kind) ==
    IF kind \in DOMAIN kdm
    THEN kdm
    ELSE [k \in DOMAIN kdm \cup {kind} |-> IF k = kind THEN EmptyMap ELSE kdm[k]]

\* pName of add and remove: the policy identifier.
pNameOf(policy) ==
    IF GetNamespace(policy) # <<>>
    THEN GetNamespace(policy) \o Slash \o GetName(policy)
    ELSE GetName(policy)

\* kind + "/" + pName
cacheKey(kind, pName) == kind \o Slash \o pName

(* -------------------------------------------------------------------- add *)
\* The index as one value: the two maps guarded by the lock.
Index(kdm, ncm) == [kindDataMap |-> kdm, nameCacheMap |-> ncm]

\* addEntry without the test of the name cache: every call appends.
addEntryNoCheck(m, policy, kind, pt) ==
    LET pName == pNameOf(policy)
        key == cacheKey(kind, pName)
    IN  Index(kindDataSet(m.kindDataMap, kind, pt,
                          Append(kindData(m.kindDataMap, kind, pt), pName)),
              [m.nameCacheMap EXCEPT ![pt] = @ \cup {key}])

\* The body of "if !xMap[key] { xMap[key] = true; append }" for one PolicyType.
addEntry(m, policy, kind, pt) ==
    LET pName == pNameOf(policy)
        isNamespacedPolicy == GetNamespace(policy) # <<>>
        key == cacheKey(kind, pName)
    IN  IF key \notin m.nameCacheMap[pt]
        THEN Index(
               IF isNamespacedPolicy
               THEN kindDataSet(m.kindDataMap, kind, pt,
                                Append(kindData(m.kindDataMap, kind, pt), pName))
               ELSE kindDataSet(m.kindDataMap, kind, pt,
                                Append(kindData(m.kindDataMap, kind, pt), GetName(policy))),
               [m.nameCacheMap EXCEPT ![pt] = @ \cup {key}])
        ELSE m

\* addKind with the validate branch tested before the mutate branch.
addKindValidateFirst(m, policy, rule, kind) ==
    LET enforcePolicy == policy.validationFailureAction = "enforce"
        m1 == Index(kindDataMake(m.kindDataMap, kind), m.nameCacheMap)
    IN  IF HasValidate(rule)
        THEN IF enforcePolicy
             THEN addEntry(m1, policy, kind, ValidateEnforce)
             ELSE addEntry(m1, policy, kind, ValidateAudit)
        ELSE IF HasMutate(rule) THEN addEntry(m1, policy, kind, Mutate)
        ELSE IF HasGenerate(rule) THEN addEntry(m1, policy, kind, Generate)
        ELSE m1

\* addKind with enforcePolicy computed as "the action is not audit".
addKindNotAudit(m, policy, rule, kind) ==
    LET enforcePolicy == policy.validationFailureAction # "audit"
        m1 == Index(kindDataMake(m.kindDataMap, kind), m.nameCacheMap)
    IN  IF HasMutate(rule) THEN addEntry(m1, policy, kind, Mutate)
        ELSE IF HasValidate(rule)
             THEN IF enforcePolicy
                  THEN addEntry(m1, policy, kind, ValidateEnforce)
                  ELSE addEntry(m1, policy, kind, ValidateAudit)
        ELSE IF HasGenerate(rule) THEN addEntry(m1, policy, kind, Generate)
        ELSE m1

\* addKind without the continue statements: every capability of the rule is
\* indexed.
addKindFallThrough(m, policy, rule, kind) ==
    LET enforcePolicy == policy.validationFailureAction = "enforce"
        m1 == Index(kindDataMake(m.kindDataMap, kind), m.nameCacheMap)
        m2 == IF HasMutate(rule) THEN addEntry(m1, policy, kind, Mutate) ELSE m1
        m3 == IF HasValidate(rule)
              THEN IF enforcePolicy
                   THEN addEntry(m2, policy, kind, ValidateEnforce)
                   ELSE addEntry(m2, policy, kind, ValidateAudit)
              ELSE m2
    IN  IF HasGenerate(rule) THEN addEntry(m3, policy, kind, Generate) ELSE m3

\* One iteration of the inner loop of add: one kind of one rule.
addKind(m, policy, rule, kind) ==
    LET enforcePolicy == policy.validationFailureAction = "enforce"
        m1 == Index(kindDataMake(m.kindDataMap, kind), m.nameCacheMap)
    IN  IF HasMutate(rule) THEN addEntry(m1, policy, kind, Mutate)
        ELSE IF HasValidate(rule)
             THEN IF enforcePolicy
                  THEN addEntry(m1, policy, kind, ValidateEnforce)
                  ELSE addEntry(m1, policy, kind, ValidateAudit)
        ELSE IF HasGenerate(rule) THEN addEntry(m1, policy, kind, Generate)
        ELSE m1

RECURSIVE addKinds(_, _, _, _)
\* for _, kind := range rule.MatchResources.Kinds, from position i on.
addKinds(m, policy, rule, i) ==
    IF i > Len(rule.kinds) THEN m
    ELSE addKinds(addKind(m, policy, rule, rule.kinds[i]), policy, rule, i + 1)

RECURSIVE addRules(_, _, _)
\* for _, rule := range policy.Spec.Rules, from position j on.
addRules(m, policy, j) ==
    IF j > Len(policy.rules) THEN m
    ELSE addRules(addKinds(m, policy, policy.rules[j], 1), policy, j + 1)

\* pMap.add as a function of the index.
add(m, policy) == addRules(m, policy, 1)

(* ----------------------------------------------------------------- remove *)
\* removeKind that also deletes the identifier from the slices of the kind.
removeKindPrune(m, policy, kind) ==
    LET key == cacheKey(kind, pNameOf(policy))
        keep(x) == x # pNameOf(policy)
    IN  Index([k \in DOMAIN m.kindDataMap |->
                  IF k = kind
                  THEN [t \in DOMAIN m.kindDataMap[k] |-> SelectSeq(m.kindDataMap[k][t], keep)]
                  ELSE m.kindDataMap[k]],
              [pt \in DOMAIN m.nameCacheMap |-> m.nameCacheMap[pt] \ {key}])

\* for _, nameCache := range m.nameCacheMap { delete(nameCache, key) }
removeKind(m, policy, kind) ==
    LET key == cacheKey(kind, pNameOf(policy))
    IN  Index(m.kindDataMap, [pt \in DOMAIN m.nameCacheMap |-> m.nameCacheMap[pt] \ {key}])

RECURSIVE removeKinds(_, _, _, _)
removeKinds(m, policy, rule, i) ==
    IF i > Len(rule.kinds) THEN m
    ELSE removeKinds(removeKind(m, policy, rule.kinds[i]), policy, rule, i + 1)

RECURSIVE removeRules(_, _, _)
removeRules(m, policy, j) ==
    IF j > Len(policy.rules) THEN m
    ELSE removeRules(removeKinds(m, policy, policy.rules[j], 1), policy, j + 1)

\* pMap.remove as a function of the index.
remove(m, policy) == removeRules(m, policy, 1)

(* -------------------------------------------------------------------- get *)
\* The nil pointer a lister returns together with its not-found error.
Nil == [type |-> "nil", namespace |-> <<>>, name |-> <<>>]

\* Position of the first "/" of a string, 0 when it has none.
slashIndex(s) ==
    IF \E i \in 1..Len(s) : s[i] = "/"
    THEN CHOOSE i \in 1..Len(s) : s[i] = "/" /\ \A j \in 1..(i - 1) : s[j] # "/"
    ELSE 0

\* policy2.ParseNamespacedPolicy: splits an identifier at its first "/".
ParseNamespacedPolicy(policyName) ==
    LET index == slashIndex(policyName)
    IN  IF index # 0
        THEN [ns |-> SubSeq(policyName, 1, index - 1),
              key |-> SubSeq(policyName, index + 1, Len(policyName)),
              isNamespacedPolicy |-> TRUE]
        ELSE [ns |-> <<>>, key |-> policyName, isNamespacedPolicy |-> FALSE]

\* m.pLister.Get(key): the cluster policy of that name, or nil.
pListerGet(pl, key) ==
    IF key \in pl THEN [type |-> "ClusterPolicy", namespace |-> <<>>, name |-> key] ELSE Nil

\* m.npLister.Policies(ns).Get(key): the namespaced policy, or nil.
npListerGet(npl, ns, key) ==
    IF <<ns, key>> \in npl THEN [type |-> "Policy", namespace |-> ns, name |-> key] ELSE Nil

\* policy2.ConvertPolicyToClusterPolicy: the same object as a ClusterPolicy.
ConvertPolicyToClusterPolicy(nspolicy) ==
    IF nspolicy = Nil THEN Nil ELSE [nspolicy EXCEPT !.type = "ClusterPolicy"]

\* getEntry without the comparison of the namespace.
getEntryAnyNamespace(r, policyName, nspace, pl, npl) ==
    LET parsed == ParseNamespacedPolicy(policyName)
    IN  IF ~parsed.isNamespacedPolicy
        THEN [pname |-> Append(r.pname, policyName),
              allPolicies |-> Append(r.allPolicies, pListerGet(pl, parsed.key))]
        ELSE [pname |-> Append(r.pname, parsed.key),
              allPolicies |-> Append(r.allPolicies,
                   ConvertPolicyToClusterPolicy(npListerGet(npl, parsed.ns, parsed.key)))]

\* getEntry comparing the namespace for cluster policies as well.
getEntryClusterScoped(r, policyName, nspace, pl, npl) ==
    LET parsed == ParseNamespacedPolicy(policyName)
    IN  IF parsed.ns = nspace
        THEN IF ~parsed.isNamespacedPolicy
             THEN [pname |-> Append(r.pname, policyName),
                   allPolicies |-> Append(r.allPolicies, pListerGet(pl, parsed.key))]
             ELSE [pname |-> Append(r.pname, parsed.key),
                   allPolicies |-> Append(r.allPolicies,
                        ConvertPolicyToClusterPolicy(npListerGet(npl, parsed.ns, parsed.key)))]
        ELSE r

\* getEntry appending the object only when the lister has found it.
getEntrySkipNil(r, policyName, nspace, pl, npl) ==
    LET parsed == ParseNamespacedPolicy(policyName)
        found == IF parsed.isNamespacedPolicy
                 THEN ConvertPolicyToClusterPolicy(npListerGet(npl, parsed.ns, parsed.key))
                 ELSE pListerGet(pl, parsed.key)
    IN  IF parsed.isNamespacedPolicy /\ parsed.ns # nspace
        THEN r
        ELSE [pname |-> Append(r.pname, parsed.key),
              allPolicies |-> IF found = Nil THEN r.allPolicies
                              ELSE Append(r.allPolicies, found)]

\* getEntry skipping a cluster policy that the lister does not find.
getEntrySkipNotFound(r, policyName, nspace, pl, npl) ==
    LET parsed == ParseNamespacedPolicy(policyName)
    IN  IF ~parsed.isNamespacedPolicy
        THEN IF pListerGet(pl, parsed.key) = Nil
             THEN r
             ELSE [pname |-> Append(r.pname, policyName),
                   allPolicies |-> Append(r.allPolicies, pListerGet(pl, parsed.key))]
        ELSE IF parsed.ns = nspace
             THEN [pname |-> Append(r.pname, parsed.key),
                   allPolicies |-> Append(r.allPolicies,
                        ConvertPolicyToClusterPolicy(npListerGet(npl, parsed.ns, parsed.key)))]
             ELSE r

\* getEntry putting the entry in front of the result instead of behind it.
getEntryPrepend(r, policyName, nspace, pl, npl) ==
    LET parsed == ParseNamespacedPolicy(policyName)
    IN  IF ~parsed.isNamespacedPolicy
        THEN [pname |-> <<policyName>> \o r.pname,
              allPolicies |-> <<pListerGet(pl, parsed.key)>> \o r.allPolicies]
        ELSE IF parsed.ns = nspace
             THEN [pname |-> <<parsed.key>> \o r.pname,
                   allPolicies |-> <<ConvertPolicyToClusterPolicy(
                                        npListerGet(npl, parsed.ns, parsed.key))>>
                                   \o r.allPolicies]
             ELSE r

\* One iteration of the loop of get, r being the two result slices so far.
getEntry(r, policyName, nspace, pl, npl) ==
    LET parsed == ParseNamespacedPolicy(policyName)
    IN  IF ~parsed.isNamespacedPolicy
        THEN [pname |-> Append(r.pname, policyName),
              allPolicies |-> Append(r.allPolicies, pListerGet(pl, parsed.key))]
        ELSE IF parsed.ns = nspace
             THEN [pname |-> Append(r.pname, parsed.key),
                   allPolicies |-> Append(r.allPolicies,
                        ConvertPolicyToClusterPolicy(npListerGet(npl, parsed.ns, parsed.key)))]
             ELSE r

RECURSIVE getLoop(_, _, _, _, _, _)
\* for _, policyName := range m.kindDataMap[*kind][key], from position i on.
getLoop(r, names, i, nspace, pl, npl) ==
    IF i > Len(names) THEN r
    ELSE getLoop(getEntry(r, names[i], nspace, pl, npl), names, i + 1, nspace, pl, npl)

\* pMap.get: the result slices; the index is only read.
get(m, key, kind, nspace, pl, npl) ==
    getLoop([pname |-> <<>>, allPolicies |-> <<>>],
            kindData(m.kindDataMap, kind, key), 1, nspace, pl, npl)

\* get creating the entry of a kind it does not find.
getIndexMake(m, key, kind) == Index(kindDataMake(m.kindDataMap, kind), m.nameCacheMap)

\* The index get leaves behind: reading a Go map never adds a key.
getIndex(m, key, kind) == m

(* ------------------------------------------------------------------ state *)
\* The index held by the variables.
cur == Index(kindDataMap, nameCacheMap)

\* Number of identifiers stored in all slices of a kindDataMap.
totalEntries(kdm) ==
    Cardinality(UNION { UNION { {<<k, t, i>> : i \in 1..Len(kdm[k][t])} : t \in DOMAIN kdm[k] }
                        : k \in DOMAIN kdm })

\* The identifiers of the policies above.
Ids == {pNameOf(policy) : policy \in Policies}

\* No version of a policy has been added yet.
NoPolicy == [name |-> <<>>, namespace |-> <<>>, validationFailureAction |-> "", rules |-> <<>>]

\* The goroutines of the concurrent callers.
Threads == 1..NumThreads

\* A goroutine that makes no call.
NoCall == [op |-> "None", pc |-> "done"]

\* The zero value of sync.RWMutex: no writer, no readers.
Unlocked == [writer |-> FALSE, readers |-> 0]

\* newPolicyCache: empty maps and an unlocked mutex.
Init ==
    /\ kindDataMap = [k \in {} |-> EmptyMap]
    /\ nameCacheMap = [pt \in PolicyType |-> {}]
    /\ last = [op |-> "New"]
    /\ added = [latest |-> [id \in Ids |-> NoPolicy], live |-> {}]
    /\ rw = Unlocked
    /\ proc = [t \in Threads |-> NoCall]

\* policyCache.Add, without the caller's bookkeeping.
AddCall(policy) ==
    LET m == add(cur, policy)
    IN  /\ totalEntries(m.kindDataMap) <= MaxEntries
        /\ kindDataMap' = m.kindDataMap
        /\ nameCacheMap' = m.nameCacheMap
        /\ last' = [op |-> "Add", policy |-> policy,
                    again |-> (last.op = "Add" /\ last.policy = policy)]
        /\ UNCHANGED <<rw, proc>>

\* policyCache.Remove, without the caller's bookkeeping.
RemoveCall(policy) ==
    LET m == remove(cur, policy)
    IN  /\ kindDataMap' = m.kindDataMap
        /\ nameCacheMap' = m.nameCacheMap
        /\ last' = [op |-> "Remove", policy |-> policy]
        /\ UNCHANGED <<rw, proc>>

\* policyCache.Add called by any caller.
Add(policy) == AddCall(policy) /\ UNCHANGED added

\* policyCache.Remove called by any caller.
Remove(policy) == RemoveCall(policy) /\ UNCHANGED added

\* The contents the informer stores behind pLister and npLister can have when
\* Get is called: the cluster policies by name, the others by namespace and
\* name.  Get reads npLister for the namespace nspace only, so the policies of
\* the other namespaces are left out of the store.
pListerStores == SUBSET {policy.name : policy \in {p \in Policies : p.namespace = <<>>}}
npListerStores(nspace) ==
    SUBSET {<<policy.namespace, policy.name>> :
               policy \in {p \in Policies : p.namespace # <<>> /\ p.namespace = nspace}}

\* policyCache.Get, pLister and npLister being the stores at the time of the call.
Get(pkey, kind, nspace, pLister, npLister) ==
    LET r == get(cur, pkey, kind, nspace, pLister, npLister)
        m == getIndex(cur, pkey, kind)
    IN  /\ kindDataMap' = m.kindDataMap
        /\ nameCacheMap' = m.nameCacheMap
        /\ last' = [op |-> "Get", pkey |-> pkey, kind |-> kind, nspace |-> nspace,
                    pname |-> r.pname, allPolicies |-> r.allPolicies]
        /\ UNCHANGED <<added, rw, proc>>

Next ==
    \/ \E policy \in Policies : Add(policy)
    \/ \E policy \in Policies : Remove(policy)
    \/ \E pkey \in PolicyType, kind \in Kinds, nspace \in Namespaces :
          \E pLister \in pListerStores, npLister \in npListerStores(nspace) :
             Get(pkey, kind, nspace, pLister, npLister)

Spec == Init /\ [][Next]_vars

(* ---------------------------------------------- the update protocol caller *)
\* A caller that follows the update protocol adds a policy that is not in the
\* cache: a new policy, or the new version right after Remove(old version).
UpdateAdd(policy) ==
    /\ pNameOf(policy) \notin added.live
    /\ AddCall(policy)
    /\ added' = [latest |-> [added.latest EXCEPT ![pNameOf(policy)] = policy],
                 live |-> added.live \cup {pNameOf(policy)}]

\* It removes the version it added: on delete, or as the first half of an update.
UpdateRemove(policy) ==
    /\ pNameOf(policy) \in added.live
    /\ added.latest[pNameOf(policy)] = policy
    /\ RemoveCall(policy)
    /\ added' = [added EXCEPT !.live = @ \ {pNameOf(policy)}]

NextUpdate ==
    \/ \E policy \in Policies : UpdateAdd(policy)
    \/ \E policy \in Policies : UpdateRemove(policy)

SpecUpdate == Init /\ [][NextUpdate]_vars

(* ------------------------------------------------------ concurrent callers *)
\* m.Lock() that does not wait for the readers.
canLockNoReaders(l) == ~l.writer

\* m.Lock() that does not wait for another writer.
canLockNoWriter(l) == l.readers = 0

\* m.Lock() can return: no writer and no reader holds the mutex.
canLock(l) == ~l.writer /\ l.readers = 0

\* m.RLock() can return: no writer holds the mutex.  (A waiting writer does
\* not hold back readers here, which allows more interleavings than Go does.)
canRLock(l) == ~l.writer

\* The mutex after m.Lock(), m.Unlock(), m.RLock() and m.RUnlock().
lock(l) == [l EXCEPT !.writer = TRUE]
\* A return path without m.Unlock().
unlockMissing(l) == l
unlock(l) == [l EXCEPT !.writer = FALSE]
rlock(l) == [l EXCEPT !.readers = @ + 1]
runlock(l) == [l EXCEPT !.readers = @ - 1]

RECURSIVE kindSeq(_, _)
\* The iterations of the inner loop for one rule, from kind i on.
kindSeq(rule, i) ==
    IF i > Len(rule.kinds) THEN <<>>
    ELSE <<[rule |-> rule, kind |-> rule.kinds[i]]>> \o kindSeq(rule, i + 1)

RECURSIVE pairSeq(_, _)
\* The iterations of the two nested loops of add and remove, from rule j on.
pairSeq(policy, j) ==
    IF j > Len(policy.rules) THEN <<>>
    ELSE kindSeq(policy.rules[j], 1) \o pairSeq(policy, j + 1)

\* The policies the concurrent callers add and remove: those with two or more
\* loop iterations.
ConcPolicies == {policy \in Policies : Len(pairSeq(policy, 1)) >= 2}

\* The arguments of the concurrent Get calls: key, kind and namespace.
ConcGets == { <<ValidateEnforce, KindPod, NsQ>>,
              <<Generate, KindPod, NoNamespace>>,
              <<ValidateEnforce, KindSub, NsN>> }

\* A call that has been made and waits for the mutex.
Call(op, policy, pkey, kind, nspace) ==
    [op |-> op, policy |-> policy, pkey |-> pkey, kind |-> kind, nspace |-> nspace,
     pc |-> "Lock", i |-> 0, names |-> <<>>, pname |-> <<>>, allPolicies |-> <<>>]

Calls ==
    {Call("Add", policy, Mutate, <<>>, <<>>) : policy \in ConcPolicies}
    \cup {Call("Remove", policy, Mutate, <<>>, <<>>) : policy \in ConcPolicies}
    \cup {Call("Get", NoPolicy, g[1], g[2], g[3]) : g \in ConcGets}

\* Every goroutine has made its call on a new cache.
InitConc ==
    /\ kindDataMap = [k \in {} |-> EmptyMap]
    /\ nameCacheMap = [pt \in PolicyType |-> {}]
    /\ last = [op |-> "New"]
    /\ added = [latest |-> [id \in Ids |-> NoPolicy], live |-> {}]
    /\ rw = Unlocked
    /\ proc \in [Threads -> Calls]

\* m.Lock() of add and remove returns.
Lock(t) ==
    /\ proc[t].pc = "Lock"
    /\ proc[t].op \in {"Add", "Remove"}
    /\ canLock(rw)
    /\ rw' = lock(rw)
    /\ proc' = [proc EXCEPT ![t].pc = "loop", ![t].i = 1]
    /\ UNCHANGED <<kindDataMap, nameCacheMap, last, added>>

\* m.RLock() of get returns; the range expression is evaluated once.
RLock(t) ==
    /\ proc[t].pc = "Lock"
    /\ proc[t].op = "Get"
    /\ canRLock(rw)
    /\ rw' = rlock(rw)
    /\ proc' = [proc EXCEPT ![t].pc = "loop", ![t].i = 1,
                              ![t].names = kindData(kindDataMap, proc[t].kind, proc[t].pkey)]
    /\ UNCHANGED <<kindDataMap, nameCacheMap, last, added>>

\* One iteration of the loops of add.
AddStep(t) ==
    /\ proc[t].pc = "loop"
    /\ proc[t].op = "Add"
    /\ proc[t].i <= Len(pairSeq(proc[t].policy, 1))
    /\ LET x == pairSeq(proc[t].policy, 1)[proc[t].i]
           m == addKind(cur, proc[t].policy, x.rule, x.kind)
       IN  /\ kindDataMap' = m.kindDataMap
           /\ nameCacheMap' = m.nameCacheMap
    /\ proc' = [proc EXCEPT ![t].i = @ + 1]
    /\ UNCHANGED <<rw, last, added>>

\* One iteration of the loops of remove.
RemoveStep(t) ==
    /\ proc[t].pc = "loop"
    /\ proc[t].op = "Remove"
    /\ proc[t].i <= Len(pairSeq(proc[t].policy, 1))
    /\ LET x == pairSeq(proc[t].policy, 1)[proc[t].i]
           m == removeKind(cur, proc[t].policy, x.kind)
       IN  /\ kindDataMap' = m.kindDataMap
           /\ nameCacheMap' = m.nameCacheMap
    /\ proc' = [proc EXCEPT ![t].i = @ + 1]
    /\ UNCHANGED <<rw, last, added>>

\* One iteration of the loop of get, with the stores of the listers as they
\* are at that moment.
GetStep(t) ==
    /\ proc[t].pc = "loop"
    /\ proc[t].op = "Get"
    /\ proc[t].i <= Len(proc[t].names)
    /\ \E pLister \in pListerStores, npLister \in npListerStores(proc[t].nspace) :
          LET r == getEntry([pname |-> proc[t].pname, allPolicies |-> proc[t].allPolicies],
                            proc[t].names[proc[t].i], proc[t].nspace, pLister, npLister)
          IN  proc' = [proc EXCEPT ![t].i = @ + 1,
                                    ![t].pname = r.pname,
                                    ![t].allPolicies = r.allPolicies]
    /\ UNCHANGED <<kindDataMap, nameCacheMap, rw, last, added>>

\* add or remove returns: the deferred m.Unlock().
Unlock(t) ==
    /\ proc[t].pc = "loop"
    /\ proc[t].op \in {"Add", "Remove"}
    /\ proc[t].i > Len(pairSeq(proc[t].policy, 1))
    /\ rw' = unlock(rw)
    /\ proc' = [proc EXCEPT ![t].pc = "done"]
    /\ UNCHANGED <<kindDataMap, nameCacheMap, last, added>>

\* get returns: the deferred m.RUnlock().
RUnlock(t) ==
    /\ proc[t].pc = "loop"
    /\ proc[t].op = "Get"
    /\ proc[t].i > Len(proc[t].names)
    /\ rw' = runlock(rw)
    /\ proc' = [proc EXCEPT ![t].pc = "done"]
    /\ UNCHANGED <<kindDataMap, nameCacheMap, last, added>>

\* The steps of one goroutine.
Thread(t) ==
    \/ Lock(t)
    \/ RLock(t)
    \/ AddStep(t)
    \/ RemoveStep(t)
    \/ GetStep(t)
    \/ Unlock(t)
    \/ RUnlock(t)

NextConc == \E t \in Threads : Thread(t)

SpecConc == InitConc /\ [][NextConc]_vars

\* The scheduler runs every goroutine that can take a step.
SpecConcFair == SpecConc /\ \A t \in Threads : WF_vars(Thread(t))

(* ------------------------------------------------------------ properties *)
Range(s) == {s[i] : i \in 1..Len(s)}

\* Number of positions of a sequence that hold x.
Count(s, x) == Cardinality({i \in 1..Len(s) : s[i] = x})

\* The (kind, rule) pairs of a policy: the iterations of the loops of add.
Pairs(policy) ==
    UNION { {<<policy.rules[j].kinds[i], policy.rules[j]>> :
                i \in 1..Len(policy.rules[j].kinds)} : j \in 1..Len(policy.rules) }

\* The precedence list of the classifier: mutate, validate, generate, or none.
Capability(rule) ==
    IF rule.mutate THEN "mutate"
    ELSE IF rule.validate THEN "validate"
    ELSE IF rule.generate THEN "generate"
    ELSE "none"

\* The categories a capability is indexed under.
CategoriesOf(capability) ==
    IF capability = "mutate" THEN {Mutate}
    ELSE IF capability = "validate" THEN {ValidateEnforce, ValidateAudit}
    ELSE IF capability = "generate" THEN {Generate}
    ELSE {}

\* The enforcement category of a rule of a policy; "none" when it has none.
Classify(rule, policy) ==
    IF Capability(rule) = "mutate" THEN Mutate
    ELSE IF Capability(rule) = "validate"
         THEN IF policy.validationFailureAction = "enforce"
              THEN ValidateEnforce ELSE ValidateAudit
    ELSE IF Capability(rule) = "generate" THEN Generate
    ELSE "none"

\* C1: no policy identifier occurs more than once in any sequence
\* kindDataMap[kind][category], in every state reachable by Add and Remove.
C1_NoDuplicateIdentifier ==
    \A k \in DOMAIN kindDataMap : \A t \in DOMAIN kindDataMap[k] :
        \A i, j \in 1..Len(kindDataMap[k][t]) :
            kindDataMap[k][t][i] = kindDataMap[k][t][j] => i = j

\* C2: in every reachable state and for every policy, Add(p) followed by
\* Add(p) leaves both maps exactly as the first Add(p) leaves them.
C2_IdempotentAdd ==
    \A policy \in Policies : add(add(cur, policy), policy) = add(cur, policy)

\* Add(p) has just been called twice in a row and p has indexed entries.
C2_Witness ==
    /\ last.op = "Add"
    /\ last.again
    /\ \E x \in Pairs(last.policy) :
          Classify(x[2], last.policy) # "none"
          /\ pNameOf(last.policy) \in Range(kindData(kindDataMap, x[1], Classify(x[2], last.policy)))

\* C3: when callers follow the update protocol, an identifier is in
\* kindDataMap[kind][category] only if the most recently added version of
\* that policy has a rule matching the kind and classified into the category.
C3_NoStaleEntries ==
    \A k \in DOMAIN kindDataMap : \A t \in DOMAIN kindDataMap[k] :
        \A id \in Range(kindDataMap[k][t]) :
            /\ id \in Ids
            /\ \E x \in Pairs(added.latest[id]) :
                  x[1] = k /\ Classify(x[2], added.latest[id]) = t

\* C4: after Add(p) returns, for every rule of p and every kind it matches,
\* the identifier of p is in kindDataMap[kind][category of the rule].
C4_AddComplete ==
    last.op = "Add" =>
        \A x \in Pairs(last.policy) :
            Classify(x[2], last.policy) # "none" =>
                pNameOf(last.policy) \in
                    Range(kindData(kindDataMap, x[1], Classify(x[2], last.policy)))

\* C5: Add(p) indexes each (rule, kind) pair under the categories of the
\* first capability of the rule in the order mutate, validate, generate, and
\* under no other category; a rule without capability indexes nothing.
\* Indexing is: the key is recorded and, unless it was recorded before, the
\* identifier is appended once.
C5_Precedence ==
    \A policy \in Policies :
        LET m == add(cur, policy)
            id == pNameOf(policy)
            \* the pairs of the policy with kind k that may be indexed under t
            Allowed(k, t) == {x \in Pairs(policy) :
                                 x[1] = k /\ t \in CategoriesOf(Capability(x[2]))}
        IN  /\ \A k \in Kinds, t \in PolicyType :
                  Allowed(k, t) = {} =>
                     /\ kindData(m.kindDataMap, k, t) = kindData(kindDataMap, k, t)
                     /\ cacheKey(k, id) \in m.nameCacheMap[t]
                            <=> cacheKey(k, id) \in nameCacheMap[t]
            /\ \A x \in Pairs(policy) :
                  Capability(x[2]) # "none" =>
                     \E t \in CategoriesOf(Capability(x[2])) :
                        /\ cacheKey(x[1], id) \in m.nameCacheMap[t]
                        /\ kindData(m.kindDataMap, x[1], t) =
                             IF cacheKey(x[1], id) \in nameCacheMap[t]
                             THEN kindData(kindDataMap, x[1], t)
                             ELSE Append(kindData(kindDataMap, x[1], t), id)

\* A rule with mutate and validate capability has been added: its identifier
\* is under Mutate only.
C5_Witness ==
    /\ last.op = "Add"
    /\ \E x \in Pairs(last.policy) :
          /\ x[2].mutate /\ x[2].validate
          /\ pNameOf(last.policy) \in Range(kindData(kindDataMap, x[1], Mutate))
          /\ \A t \in PolicyType \ {Mutate} : kindData(kindDataMap, x[1], t) = <<>>

\* C6: Add(p) indexes a validate rule without mutate under ValidateEnforce
\* and not under ValidateAudit when the validation failure action of p is
\* "enforce", and under ValidateAudit and not under ValidateEnforce for any
\* other action, the empty one included.
C6_EnforceAuditSplit ==
    \A policy \in Policies :
        LET m == add(cur, policy)
            id == pNameOf(policy)
            into == IF policy.validationFailureAction = "enforce"
                    THEN ValidateEnforce ELSE ValidateAudit
            other == IF policy.validationFailureAction = "enforce"
                     THEN ValidateAudit ELSE ValidateEnforce
        IN  \A x \in Pairs(policy) :
               (x[2].validate /\ ~x[2].mutate) =>
                  /\ cacheKey(x[1], id) \in m.nameCacheMap[into]
                  /\ cacheKey(x[1], id) \notin nameCacheMap[into] =>
                        kindData(m.kindDataMap, x[1], into) =
                            Append(kindData(kindDataMap, x[1], into), id)
                  /\ kindData(m.kindDataMap, x[1], other) = kindData(kindDataMap, x[1], other)
                  /\ m.nameCacheMap[other] = nameCacheMap[other]

\* A validate rule of a policy whose action is not "enforce" has been added
\* under ValidateAudit, next to an "enforce" policy under ValidateEnforce.
C6_Witness ==
    /\ last.op = "Add"
    /\ last.policy.validationFailureAction = ""
    /\ \E x \in Pairs(last.policy) :
          /\ x[2].validate /\ ~x[2].mutate
          /\ pNameOf(last.policy) \in Range(kindData(kindDataMap, x[1], ValidateAudit))
          /\ pNameOf(last.policy) \notin Range(kindData(kindDataMap, x[1], ValidateEnforce))
    /\ \E k \in Kinds : kindData(kindDataMap, k, ValidateEnforce) # <<>>

\* The names of the policies above, and the identifier of a namespaced one.
Names == {policy.name : policy \in Policies}
NamespacedId(ns, name) == ns \o Slash \o name

\* The sequence the last Get has read.
stored == kindData(kindDataMap, last.kind, last.pkey)

\* C7: for a namespaced identifier ns/name in kindDataMap[kind][category],
\* Get(category, kind, n) has an entry for it if and only if n = ns: with
\* n = ns its unqualified name is returned with its object or nil, with
\* n # ns neither the identifier nor an object of namespace ns is returned,
\* and the result has one entry per identifier that is not skipped.
C7_NamespaceScoping ==
    last.op = "Get" =>
        /\ \A ns \in Namespaces \ {NoNamespace}, name \in Names :
              NamespacedId(ns, name) \in Range(stored) =>
                 IF last.nspace = ns
                 THEN \E j \in 1..Len(last.pname) :
                         /\ last.pname[j] = name
                         /\ j <= Len(last.allPolicies)
                         /\ last.allPolicies[j] \in
                               {Nil, [type |-> "ClusterPolicy", namespace |-> ns, name |-> name]}
                 ELSE /\ NamespacedId(ns, name) \notin Range(last.pname)
                      /\ \A j \in 1..Len(last.allPolicies) :
                            last.allPolicies[j].namespace # ns
        /\ Len(last.pname) =
              Cardinality({i \in 1..Len(stored) :
                  \/ stored[i] \in Names
                  \/ \E name \in Names : stored[i] = NamespacedId(last.nspace, name)})

\* Get has read a sequence holding q/r and n/r with namespace q: one entry.
C7_Witness ==
    /\ last.op = "Get"
    /\ last.nspace = NsQ
    /\ NamespacedId(NsQ, NameR) \in Range(stored)
    /\ NamespacedId(NsN, NameR) \in Range(stored)
    /\ last.pname = <<NameR>>
    /\ last.allPolicies[1].namespace = NsQ

\* C8: for a cluster-scoped identifier in kindDataMap[kind][category],
\* Get(category, kind, n) returns that identifier, with the cluster policy or
\* nil, for every namespace argument n, the empty one included: as often as
\* it is stored, next to the entries of the namespaced policies of n.
C8_ClusterVisibility ==
    last.op = "Get" =>
        \A name \in Names :
            name \in Range(stored) =>
               /\ \E j \in 1..Len(last.pname) :
                     /\ last.pname[j] = name
                     /\ j <= Len(last.allPolicies)
                     /\ last.allPolicies[j] \in
                           {Nil, [type |-> "ClusterPolicy", namespace |-> <<>>, name |-> name]}
               /\ Count(last.pname, name) =
                     Count(stored, name) + Count(stored, NamespacedId(last.nspace, name))

\* Get with a namespace that no stored policy has returns the cluster policy r
\* and skips the namespaced q/r stored next to it.
C8_Witness ==
    /\ last.op = "Get"
    /\ last.nspace = NsN
    /\ NameR \in Range(stored)
    /\ NamespacedId(NsQ, NameR) \in Range(stored)
    /\ last.pname = <<NameR>>
    /\ last.allPolicies[1].type = "ClusterPolicy"

\* C9: the two sequences Get returns have equal length and correspond by
\* position: the object at position i is nil or the policy named by the
\* identifier at position i, whatever the listers hold.
C9_ParallelLength ==
    last.op = "Get" =>
        /\ Len(last.pname) = Len(last.allPolicies)
        /\ \A i \in 1..Len(last.pname) :
              \/ last.allPolicies[i] = Nil
              \/ /\ last.allPolicies[i].type = "ClusterPolicy"
                 /\ last.allPolicies[i].name = last.pname[i]
                 /\ last.allPolicies[i].namespace \in {NoNamespace, last.nspace}

\* Get has returned a resolved and an unresolved entry and skipped a third.
C9_Witness ==
    /\ last.op = "Get"
    /\ Len(stored) > Len(last.pname)
    /\ Len(last.pname) = 2
    /\ \E i, j \in 1..2 : last.allPolicies[i] = Nil /\ last.allPolicies[j] # Nil

\* C10: a Get call leaves kindDataMap and nameCacheMap as they were, for every
\* category, kind and namespace, a kind or category without entry included.
\* (A step that ends with last.op = "Get" is a Get call.)
C10_GetReadOnly ==
    [][last'.op = "Get" => UNCHANGED <<kindDataMap, nameCacheMap>>]_vars

\* Get has been called for a kind that has no entry while another kind has one.
C10_Witness ==
    /\ last.op = "Get"
    /\ last.kind \notin DOMAIN kindDataMap
    /\ DOMAIN kindDataMap # {}
    /\ last.pname = <<>>

\* C12: whenever an Add call has returned, for every category the name cache
\* is exactly the set of keys kind/identifier of the identifiers stored in
\* kindDataMap[kind][category].
C12_MirrorAfterAdd ==
    last.op = "Add" =>
        \A t \in PolicyType :
            nameCacheMap[t] =
                UNION { {cacheKey(k, id) : id \in Range(kindData(kindDataMap, k, t))}
                        : k \in DOMAIN kindDataMap }

\* C13 as stated: for every kind and identifier, the identifier is stored
\* under at most one category of that kind.
C13_OneCategoryPerPolicy ==
    \A k \in DOMAIN kindDataMap : \A id \in Ids :
        Cardinality({t \in DOMAIN kindDataMap[k] : id \in Range(kindDataMap[k][t])}) <= 1

\* C13 as amended: exactly one category applies to a (rule, kind) pairing.
\* Add(p) appends the identifier of p for a kind only under the categories of
\* the rules of p that match the kind, at most one category per such rule.
C13_OneCategoryPerRule ==
    \A policy \in Policies : \A k \in Kinds :
        LET m == add(cur, policy)
            changed == {t \in PolicyType :
                           kindData(m.kindDataMap, k, t) # kindData(kindDataMap, k, t)}
            matching == {j \in 1..Len(policy.rules) :
                           k \in Range(policy.rules[j].kinds)}
        IN  /\ changed \subseteq {Classify(policy.rules[j], policy) : j \in matching}
            /\ Cardinality(changed) <= Cardinality(matching)

\* A policy with two rules for one kind has been added: its identifier is
\* under two categories of that kind, one per rule.
C13_Witness ==
    /\ last.op = "Add"
    /\ Len(last.policy.rules) = 2
    /\ \E k \in DOMAIN kindDataMap :
          /\ \A j \in 1..2 : k \in Range(last.policy.rules[j].kinds)
          /\ Cardinality({t \in DOMAIN kindDataMap[k] :
                             pNameOf(last.policy) \in Range(kindDataMap[k][t])}) = 2

\* C14: a lister that does not find a policy does not stop Get and does not
\* make it skip an entry: Get returns the identifiers it returns when the
\* listers find nothing, then each with the nil object, and every stored
\* cluster-scoped identifier is among them as often as it is stored.
C14_NotFoundNotFatal ==
    last.op = "Get" =>
        LET r == get(cur, last.pkey, last.kind, last.nspace, {}, {})
        IN  /\ r.pname = last.pname
            /\ Len(last.allPolicies) = Len(last.pname)
            /\ r.allPolicies = [i \in 1..Len(r.pname) |-> Nil]
            /\ \A name \in Names :
                  Cardinality({i \in 1..Len(r.pname) :
                                  r.pname[i] = name /\ r.allPolicies[i] = Nil})
                     >= Count(stored, name)

\* Get has returned a stored cluster-scoped identifier with the nil object.
C14_Witness ==
    /\ last.op = "Get"
    /\ stored = <<NameR>>
    /\ last.pname = <<NameR>>
    /\ last.allPolicies = <<Nil>>

\* The keys remove deletes for a policy: one per kind of its rules.
KeysOf(policy) == {cacheKey(x[1], pNameOf(policy)) : x \in Pairs(policy)}

Kept(names, nspace) ==
    LET keep(x) == \/ x \in Names
                   \/ \E name \in Names : x = NamespacedId(nspace, name)
    IN  SelectSeq(names, keep)

\* The name returned for a kept identifier: the identifier of a cluster
\* policy, the unqualified name of a namespaced one.
ReturnedName(id, nspace) ==
    IF id \in Names THEN id
    ELSE CHOOSE name \in Names : id = NamespacedId(nspace, name)

\* C17: Get(category, kind, n) returns kindDataMap[kind][category] in its
\* stored order, without the namespaced identifiers of other namespaces, a
\* kept namespaced identifier as its unqualified name and a cluster-scoped
\* one unchanged, each with nil or the policy it names; a missing kind or
\* category gives two empty sequences.
C17_GetFiltersInOrder ==
    last.op = "Get" =>
        LET kept == Kept(stored, last.nspace)
        IN  /\ last.pname = [i \in 1..Len(kept) |-> ReturnedName(kept[i], last.nspace)]
            /\ Len(last.allPolicies) = Len(kept)
            /\ \A i \in 1..Len(kept) :
                  last.allPolicies[i] \in
                     {Nil,
                      [type |-> "ClusterPolicy",
                       namespace |-> IF kept[i] \in Names THEN <<>> ELSE last.nspace,
                       name |-> ReturnedName(kept[i], last.nspace)]}
            /\ (last.kind \notin DOMAIN kindDataMap
                 \/ last.pkey \notin DOMAIN kindDataMap[last.kind])
                  => last.pname = <<>> /\ last.allPolicies = <<>>

\* Get for namespace n has read [q/r, r, n/r], skipped q/r and returned the
\* cluster policy r and then the policy r of namespace n, both resolved.
C17_Witness ==
    /\ last.op = "Get"
    /\ last.nspace = NsN
    /\ stored = <<NamespacedId(NsQ, NameR), NameR, NamespacedId(NsN, NameR)>>
    /\ last.pname = <<NameR, NameR>>
    /\ last.allPolicies[1] # Nil
    /\ last.allPolicies[1].namespace = <<>>
    /\ last.allPolicies[2].namespace = NsN

\* C19: for every category, every key kind/identifier in the name cache has
\* its identifier stored in kindDataMap[kind][category].
C19_NameCacheInKindData ==
    \A t \in PolicyType : \A k \in Kinds : \A id \in Ids :
        cacheKey(k, id) \in nameCacheMap[t] => id \in Range(kindData(kindDataMap, k, t))

\* C20: the key recorded for one (kind, identifier) pair never makes Add skip
\* the entry of another pair, and Remove of one policy never deletes the key
\* of another policy: an Add stores the identifier under every pair of its
\* policy that was not stored before, and a Remove keeps the key of every
\* pair that is not a pair of its policy.
C20_PairsIndependent ==
    [][/\ last'.op = "Add" =>
             \A x \in Pairs(last'.policy) :
                 Classify(x[2], last'.policy) # "none" =>
                     pNameOf(last'.policy) \in
                         Range(kindData(kindDataMap', x[1], Classify(x[2], last'.policy)))
       /\ last'.op = "Remove" =>
             \A t \in PolicyType : \A k \in Kinds : \A id \in Ids :
                 (/\ cacheKey(k, id) \in nameCacheMap[t]
                  /\ ~(id = pNameOf(last'.policy)
                        /\ \E x \in Pairs(last'.policy) : x[1] = k))
                     => cacheKey(k, id) \in nameCacheMap'[t]]_vars

\* A goroutine is inside the locked section of its call.
InSection(t) == proc[t].pc = "loop"
IsWriter(t) == proc[t].op \in {"Add", "Remove"}
AllDone == \A t \in Threads : proc[t].pc = "done"

\* C11: while an Add or a Remove is inside its locked section no other call
\* is inside its locked section; only Get calls overlap with each other.
C11_WriterExclusion ==
    \A t, u \in Threads :
        (t # u /\ InSection(t) /\ InSection(u)) => (~IsWriter(t) /\ ~IsWriter(u))

\* An Add is between two iterations of its loops while a Get waits for the
\* mutex.
C11_Witness ==
    \E t, u \in Threads :
        /\ proc[t].op = "Add" /\ InSection(t) /\ proc[t].i = 2
        /\ proc[u].op = "Get" /\ proc[u].pc = "Lock"

\* The index after the call of goroutine t, done as one step.
Applied(m, t) ==
    IF proc[t].op = "Add" THEN add(m, proc[t].policy) ELSE remove(m, proc[t].policy)

RECURSIVE SerialStates(_, _)
\* The indexes reached from m by some of the calls of S, one after the other.
SerialStates(m, S) ==
    {m} \cup UNION {SerialStates(Applied(m, t), S \ {t}) : t \in S}

RECURSIVE SerialResults(_, _)
\* The indexes reached from m by all calls of S, one after the other.
SerialResults(m, S) ==
    IF S = {} THEN {m}
    ELSE UNION {SerialResults(Applied(m, t), S \ {t}) : t \in S}

\* The index of a new cache, and the goroutines that call Add or Remove.
NewIndex == Index([k \in {} |-> EmptyMap], [pt \in PolicyType |-> {}])
Writers == {t \in Threads : IsWriter(t)}

\* C16: a Get that runs concurrently with Add and Remove calls returns the
\* identifiers it would return on an index on which each of these calls has
\* been done completely or not at all, and when all calls have returned the
\* index is the one that the Add and Remove calls give in some serial order.
C16_Serializable ==
    /\ \A t \in Threads :
          (proc[t].op = "Get" /\ proc[t].pc = "done") =>
             proc[t].pname \in
                {get(m, proc[t].pkey, proc[t].kind, proc[t].nspace, {}, {}).pname :
                    m \in SerialStates(NewIndex, Writers)}
    /\ AllDone => cur \in SerialResults(NewIndex, Writers)

\* All calls have returned: an Add with two loop iterations and a Get that
\* returned the identifier this Add stored.
C16_Witness ==
    /\ AllDone
    /\ \E t, u \in Threads :
          /\ proc[t].op = "Add"
          /\ proc[u].op = "Get"
          /\ proc[u].pname # <<>>

\* C18: with a fair scheduler every call acquires the mutex, finishes and
\* returns, and the mutex is free once all calls have returned.
C18_Completion ==
    /\ \A t \in Threads : <>(proc[t].pc = "done")
    /\ [](AllDone => rw = Unlocked)

\* All calls have returned, a writer and a Get among them, and the mutex is
\* free.
C18_Witness ==
    /\ AllDone
    /\ rw = Unlocked
    /\ \E t, u \in Threads : IsWriter(t) /\ proc[u].op = "Get"
    /\ kindDataMap # [k \in {} |-> EmptyMap]

====
